---- MODULE Spec2Model ----
(***************************************************************************)
(* Model of reactphysics3d's CollisionBody (src/body/CollisionBody.cpp):   *)
(* the intrusive singly-linked list of ProxyShapes a body owns, its shape  *)
(* counter, its contact-manifold list, and the three collaborators of the  *)
(* owning CollisionWorld the body drives: the pooled memory allocator, the *)
(* deduplicating collision-shape store and the broad-phase of the          *)
(* collision detection.                                                    *)
(*                                                                         *)
(* Pointers are block addresses; NULL is 0.  One action is one call of a   *)
(* public method, with every collaborator call it makes.  The order of     *)
(* those calls is kept in the variable calls (the calls of the last        *)
(* operation).                                                             *)
(***************************************************************************)
EXTENDS Integers, Sequences, FiniteSets, TLC

\* ---------------------------------------------------------------- bounds
\* Number of ProxyShape-sized blocks the pool can hand out.
MaxAddr == 3
\* Number of ContactManifoldListElement-sized blocks the pool can hand out.
MaxManifolds == 2
\* Cap of the shape counter (it is never reset, so it has no natural bound).
MaxCount == 3

NULL == 0
Addr == 1..MaxAddr
MAddr == 1..MaxManifolds
\* One body is modelled: no method of a body reads another body, and a proxy of
\* another body is, to this one, a block address that is not in its list.
Bodies == {"b1"}
ShapeDefs == {"sphere", "box"}
Points == {"p", "q"}
\* Entries of the shape store; equal definitions share one, so one per definition.
SAddr == 1..Cardinality(ShapeDefs)

\* Which shape definitions contain which query point (identity transforms).
ShapeContains(s, p) == (s = "sphere" /\ p = "p") \/ (s = "box" /\ p \in {"p", "q"})

VARIABLES
    bodyAlive,              \* [Bodies -> BOOLEAN]: constructed and not destroyed
    mProxyCollisionShapes,  \* [Bodies -> Addr \cup {NULL}]: head of the proxy list
    mNbCollisionShapes,     \* [Bodies -> Int]
    mContactManifoldsList,  \* [Bodies -> MAddr \cup {NULL}]: head of the manifold list
    mNext,                  \* [Addr -> Addr \cup {NULL}]: ProxyShape::mNext
    mCollisionShape,        \* [Addr -> SAddr \cup {NULL}]: ProxyShape::mCollisionShape
    mBody,                  \* [Addr -> Bodies \cup {"none"}]: ProxyShape::mBody
    cmNext,                 \* [MAddr -> MAddr \cup {NULL}]: ContactManifoldListElement::next
    allocated,              \* proxy blocks allocated and not released
    cmAllocated,            \* manifold blocks allocated and not released
    bpRegistered,           \* [Addr -> Nat]: registrations of the proxy in the broad-phase
    storeDef,               \* [SAddr -> ShapeDefs \cup {"none"}]: the store's entries
    nbSimilarCreatedShapes, \* [SAddr -> Nat]: the store's reference count per entry
    misuse,                 \* collaborator calls that broke the collaborator's contract
    fault,                  \* "none", "assert" (failed assertion) or "segv" (null dereference)
    lastOp,                 \* the last operation: [op, body, arg, ret]
    calls,                  \* the calls the last operation made, in order
    visited,                \* the list nodes the last operation's loop looked at, in order
    streak,                 \* [Bodies -> Int]: attaches in a row since the list was empty, or -1
    attachOrder             \* [Bodies -> Seq(Addr)]: the attached proxies, oldest first

bodyVars == <<bodyAlive, mProxyCollisionShapes, mNbCollisionShapes, mContactManifoldsList>>
proxyVars == <<mNext, mCollisionShape, mBody>>
worldVars == <<cmNext, allocated, cmAllocated, bpRegistered, storeDef,
               nbSimilarCreatedShapes, misuse>>
vars == <<bodyVars, proxyVars, worldVars, fault, lastOp, calls, visited, streak,
          attachOrder>>

\* ------------------------------------------------------------ collaborators
\* The state a method of the body reads and writes, as one record; a method is
\* an operator from such a record to the record after the call.
World ==
    [head |-> mProxyCollisionShapes, count |-> mNbCollisionShapes,
     cmHead |-> mContactManifoldsList, alive |-> bodyAlive,
     next |-> mNext, shape |-> mCollisionShape, body |-> mBody,
     cmNext |-> cmNext, alloc |-> allocated, cmAlloc |-> cmAllocated,
     bp |-> bpRegistered, storeDef |-> storeDef, store |-> nbSimilarCreatedShapes,
     misuse |-> misuse, fault |-> "none", calls |-> <<>>, visited |-> <<>>,
     ret |-> NULL]

Call(w, name, a, s) == [w EXCEPT !.calls = Append(@, <<name, a, s>>)]

\* A loop of a method looks at the list node at address node.
Visit(w, node) == [w EXCEPT !.visited = Append(@, node)]

\* sizeof(ProxyShape) and sizeof(ContactManifoldListElement), as the pool sees them.
SizeofProxyShape == "sizeof(ProxyShape)"
SizeofContactManifoldListElement == "sizeof(ContactManifoldListElement)"

\* MemoryAllocator::allocate(size) for a proxy; the pool picks the block.
allocate(w, block, size) ==
    [Call(w, "allocate", block, size) EXCEPT
        !.alloc = @ \cup {block},
        !.misuse = IF block \in w.alloc THEN @ \cup {"allocate"} ELSE @]

\* MemoryAllocator::release(ptr, size) of a proxy's block: the block must be
\* allocated, and size the size it was allocated with.
release(w, ptr, size) ==
    [Call(w, "release", ptr, size) EXCEPT
        !.alloc = @ \ {ptr},
        !.misuse = @ \cup (IF ptr \notin w.alloc THEN {"release"} ELSE {})
                     \cup (IF size # SizeofProxyShape THEN {"releaseSize"} ELSE {})]

\* ProxyShape::ProxyShape(body, shape, transform, mass): mNext starts NULL.
constructProxyShape(w, ptr, b, s) ==
    [Call(w, "construct", ptr, "none") EXCEPT
        !.next[ptr] = NULL, !.shape[ptr] = s, !.body[ptr] = b]

\* ProxyShape::~ProxyShape(): the fields are dead afterwards.
destructProxyShape(w, ptr) ==
    [Call(w, "destruct", ptr, "none") EXCEPT
        !.next[ptr] = NULL, !.shape[ptr] = NULL, !.body[ptr] = "none"]

\* CollisionWorld::createCollisionShape: the entry of an equal definition is
\* reused and its counter incremented; else a new entry is made in a free slot
\* (the one the store's allocation returns).  ret is the entry's handle.
createCollisionShape(w, def, slot) ==
    LET same == {h \in SAddr : w.storeDef[h] = def}
        h == IF same # {} THEN CHOOSE x \in same : TRUE ELSE slot
    IN  [Call(w, "createCollisionShape", h, def) EXCEPT
            !.storeDef[h] = def, !.store[h] = @ + 1, !.ret = h]

\* CollisionWorld::removeCollisionShape: decrements the entry's counter and
\* frees the entry when it reaches zero.
worldRemoveCollisionShape(w, h) ==
    IF h \in SAddr /\ w.store[h] > 0
    THEN [Call(w, "removeCollisionShape", h, "none") EXCEPT
             !.store[h] = @ - 1,
             !.storeDef[h] = IF w.store[h] = 1 THEN "none" ELSE @]
    ELSE [Call(w, "removeCollisionShape", h, "none") EXCEPT
             !.misuse = @ \cup {"removeCollisionShape"}]

\* CollisionDetection::addProxyCollisionShape(proxy, aabb).
addProxyCollisionShape(w, ptr) ==
    [Call(w, "addProxy", ptr, "none") EXCEPT
        !.bp[ptr] = @ + 1,
        !.misuse = IF w.bp[ptr] > 0 \/ ptr \notin w.alloc
                   THEN @ \cup {"addProxy"} ELSE @]

\* CollisionDetection::removeProxyCollisionShape(proxy).
removeProxyCollisionShape(w, ptr) ==
    IF ptr \in Addr /\ w.bp[ptr] > 0 /\ ptr \in w.alloc
    THEN [Call(w, "removeProxy", ptr, "none") EXCEPT !.bp[ptr] = @ - 1]
    ELSE [Call(w, "removeProxy", ptr, "none") EXCEPT
             !.misuse = @ \cup {"removeProxy"}]

\* CollisionDetection::updateProxyCollisionShape(proxy, aabb).
updateProxyCollisionShape(w, ptr) ==
    [Call(w, "updateProxy", ptr, "none") EXCEPT
        !.misuse = IF w.bp[ptr] = 0 \/ ptr \notin w.alloc
                   THEN @ \cup {"updateProxy"} ELSE @]

\* CollisionDetection::askForBroadPhaseCollisionCheck(proxy).
bpAskForBroadPhaseCollisionCheck(w, ptr) ==
    [Call(w, "requestRecheck", ptr, "none") EXCEPT
        !.misuse = IF w.bp[ptr] = 0 \/ ptr \notin w.alloc
                   THEN @ \cup {"requestRecheck"} ELSE @]

\* CollisionShape::computeAABB(aabb, mTransform * transform).
computeAABB(w, ptr) == Call(w, "computeAABB", ptr, "none")

\* A failed assert() or a dereference of NULL ends the process where it stands.
Abort(w, kind) == [w EXCEPT !.fault = kind]

\* ------------------------------------------------------------ CollisionBody
\* CollisionBody::CollisionBody.
Constructor(w, b) ==
    [w EXCEPT !.head[b] = NULL, !.count[b] = 0, !.cmHead[b] = NULL,
              !.alive[b] = TRUE]

\* Mutant of addCollisionShape: the two assignments of the non-empty case are
\* swapped, so the new proxy's mNext is the new proxy.
addCollisionShapeLinksSelf(w, b, collisionShape, slot, block) ==
    LET w1 == createCollisionShape(w, collisionShape, slot)
        newCollisionShape == w1.ret
        w2 == constructProxyShape(allocate(w1, block, SizeofProxyShape), block, b,
                                  newCollisionShape)
        w3 == IF w2.head[b] = NULL
              THEN [Call(w2, "link", block, "none") EXCEPT !.head[b] = block]
              ELSE [Call(w2, "link", block, "none") EXCEPT
                       !.head[b] = block, !.next[block] = block]
        w4 == addProxyCollisionShape(computeAABB(w3, block), block)
    IN  [Call(w4, "count", block, "++") EXCEPT !.count[b] = @ + 1, !.ret = block]

\* Mutant of addCollisionShape: the new proxy is linked behind the head, not in
\* front of it.
addCollisionShapeLinksSecond(w, b, collisionShape, slot, block) ==
    LET w1 == createCollisionShape(w, collisionShape, slot)
        newCollisionShape == w1.ret
        w2 == constructProxyShape(allocate(w1, block, SizeofProxyShape), block, b,
                                  newCollisionShape)
        w3 == IF w2.head[b] = NULL
              THEN [Call(w2, "link", block, "none") EXCEPT !.head[b] = block]
              ELSE [Call(w2, "link", block, "none") EXCEPT
                       !.next[block] = w2.next[w2.head[b]],
                       !.next[w2.head[b]] = block]
        w4 == addProxyCollisionShape(computeAABB(w3, block), block)
    IN  [Call(w4, "count", block, "++") EXCEPT !.count[b] = @ + 1, !.ret = block]

\* Mutant of addCollisionShape: the proxy is linked into the list after the
\* broad-phase was told, not before.
addCollisionShapeLinksLast(w, b, collisionShape, slot, block) ==
    LET w1 == createCollisionShape(w, collisionShape, slot)
        newCollisionShape == w1.ret
        w2 == constructProxyShape(allocate(w1, block, SizeofProxyShape), block, b,
                                  newCollisionShape)
        w3 == addProxyCollisionShape(computeAABB(w2, block), block)
        w4 == IF w3.head[b] = NULL
              THEN [Call(w3, "link", block, "none") EXCEPT !.head[b] = block]
              ELSE [Call(w3, "link", block, "none") EXCEPT
                       !.next[block] = w3.head[b], !.head[b] = block]
    IN  [Call(w4, "count", block, "++") EXCEPT !.count[b] = @ + 1, !.ret = block]

\* CollisionBody::addCollisionShape; block is the storage the pool returns.
addCollisionShape(w, b, collisionShape, slot, block) ==
    LET w1 == createCollisionShape(w, collisionShape, slot)
        newCollisionShape == w1.ret
        w2 == constructProxyShape(allocate(w1, block, SizeofProxyShape), block, b,
                                  newCollisionShape)
        w3 == IF w2.head[b] = NULL
              THEN [Call(w2, "link", block, "none") EXCEPT !.head[b] = block]
              ELSE [Call(w2, "link", block, "none") EXCEPT
                       !.next[block] = w2.head[b], !.head[b] = block]
        w4 == addProxyCollisionShape(computeAABB(w3, block), block)
    IN  [Call(w4, "count", block, "++") EXCEPT !.count[b] = @ + 1, !.ret = block]

\* Mutant of removeFound: the shape's reference is not given back to the store.
removeFoundKeepsShape(w, b, element) ==
    LET w1 == removeProxyCollisionShape(w, element)
        w3 == release(destructProxyShape(w1, element), element, SizeofProxyShape)
    IN  [Call(w3, "count", element, "--") EXCEPT !.count[b] = @ - 1]

\* Mutant of removeFound: the broad-phase is not told.
removeFoundKeepsRegistration(w, b, element) ==
    LET w2 == worldRemoveCollisionShape(w, w.shape[element])
        w3 == release(destructProxyShape(w2, element), element, SizeofProxyShape)
    IN  [Call(w3, "count", element, "--") EXCEPT !.count[b] = @ - 1]

\* Mutant of removeFound: the proxy is destructed but its storage is not given
\* back to the pool.
removeFoundLeaksBlock(w, b, element) ==
    LET w1 == removeProxyCollisionShape(w, element)
        w2 == worldRemoveCollisionShape(w1, w1.shape[element])
        w3 == destructProxyShape(w2, element)
    IN  [Call(w3, "count", element, "--") EXCEPT !.count[b] = @ - 1]

\* Mutant of removeFound: the storage is released before the proxy is
\* destructed and the shape given back.
removeFoundFreesFirst(w, b, element) ==
    LET w1 == removeProxyCollisionShape(w, element)
        w2 == release(w1, element, SizeofProxyShape)
        w3 == destructProxyShape(worldRemoveCollisionShape(w2, w2.shape[element]),
                                 element)
    IN  [Call(w3, "count", element, "--") EXCEPT !.count[b] = @ - 1]

\* The five calls and the decrement both branches of removeCollisionShape make
\* once the node is unlinked.
removeFound(w, b, element) ==
    LET w1 == removeProxyCollisionShape(w, element)
        w2 == worldRemoveCollisionShape(w1, w1.shape[element])
        w3 == release(destructProxyShape(w2, element), element, SizeofProxyShape)
    IN  [Call(w3, "count", element, "--") EXCEPT !.count[b] = @ - 1]

\* Mutant of removeScan: the predecessor is cut off instead of relinked.
RECURSIVE removeScanDropsTail(_, _, _, _)
removeScanDropsTail(w, b, current, proxyShape) ==
    IF w.next[current] = NULL
    THEN IF w.count[b] >= 0 THEN w ELSE Abort(w, "assert")
    ELSE IF w.next[current] = proxyShape
         THEN LET elementToRemove == w.next[current]
                  wv == Visit(w, elementToRemove)
                  w1 == [Call(wv, "unlink", elementToRemove, "mNext") EXCEPT
                            !.next[current] = NULL]
              IN  removeFound(w1, b, elementToRemove)
         ELSE removeScanDropsTail(Visit(w, w.next[current]), b, w.next[current], proxyShape)

\* Mutant of removeScan: the count is lowered when nothing was found, too.
RECURSIVE removeScanCountsMiss(_, _, _, _)
removeScanCountsMiss(w, b, current, proxyShape) ==
    IF w.next[current] = NULL
    THEN LET w1 == [w EXCEPT !.count[b] = @ - 1]
         IN  IF w1.count[b] >= 0 THEN w1 ELSE Abort(w1, "assert")
    ELSE IF w.next[current] = proxyShape
         THEN LET elementToRemove == w.next[current]
                  wv == Visit(w, elementToRemove)
                  w1 == [Call(wv, "unlink", elementToRemove, "mNext") EXCEPT
                            !.next[current] = w.next[elementToRemove]]
              IN  removeFound(w1, b, elementToRemove)
         ELSE removeScanCountsMiss(Visit(w, w.next[current]), b, w.next[current], proxyShape)

\* The while loop of removeCollisionShape, entered with current # NULL.
RECURSIVE removeScan(_, _, _, _)
removeScan(w, b, current, proxyShape) ==
    IF w.next[current] = NULL
    THEN IF w.count[b] >= 0 THEN w ELSE Abort(w, "assert")
    ELSE IF w.next[current] = proxyShape
         THEN LET elementToRemove == w.next[current]
                  wv == Visit(w, elementToRemove)
                  w1 == [Call(wv, "unlink", elementToRemove, "mNext") EXCEPT
                            !.next[current] = w.next[elementToRemove]]
              IN  removeFound(w1, b, elementToRemove)
         ELSE removeScan(Visit(w, w.next[current]), b, w.next[current], proxyShape)

\* CollisionBody::removeCollisionShape.  With an empty list current is NULL and
\* both current->mNext reads (line 104 in the head branch, taken for a NULL
\* handle, and line 114 in the loop condition) go through NULL: the read traps
\* and the process ends there, before any write.
removeCollisionShape(w, b, proxyShape) ==
    LET current == w.head[b]
    IN  IF current = proxyShape
        THEN IF current = NULL
             THEN Abort(w, "segv")
             ELSE removeFound(
                      [Call(Visit(w, current), "unlink", current,
                            "mProxyCollisionShapes") EXCEPT
                          !.head[b] = w.next[current]], b, current)
        ELSE IF current = NULL
             THEN Abort(w, "segv")
             ELSE removeScan(Visit(w, current), b, current, proxyShape)

\* The while loop of removeAllCollisionShapes.
RECURSIVE removeAllLoop(_, _)
removeAllLoop(w, current) ==
    IF current = NULL
    THEN w
    ELSE LET nextElement == w.next[current]
             w1 == removeProxyCollisionShape(Visit(w, current), current)
             w2 == worldRemoveCollisionShape(w1, w1.shape[current])
             w3 == release(destructProxyShape(w2, current), current, SizeofProxyShape)
         IN  removeAllLoop(w3, nextElement)

\* Mutant of removeAllCollisionShapes: the broad-phase is told after the proxy
\* was destructed and its storage released.
RECURSIVE deregisterLastLoop(_, _)
deregisterLastLoop(w, current) ==
    IF current = NULL
    THEN w
    ELSE LET nextElement == w.next[current]
             w1 == worldRemoveCollisionShape(Visit(w, current), w.shape[current])
             w2 == release(destructProxyShape(w1, current), current, SizeofProxyShape)
             w3 == removeProxyCollisionShape(w2, current)
         IN  deregisterLastLoop(w3, nextElement)

removeAllDeregistersLast(w, b) ==
    LET w1 == deregisterLastLoop(w, w.head[b])
    IN  [Call(w1, "resetHead", NULL, "none") EXCEPT !.head[b] = NULL]

\* Mutant of removeAllCollisionShapes: the proxies are destroyed but their
\* shapes are not given back to the store.
RECURSIVE keepShapesLoop(_, _)
keepShapesLoop(w, current) ==
    IF current = NULL
    THEN w
    ELSE LET nextElement == w.next[current]
             w1 == removeProxyCollisionShape(Visit(w, current), current)
             w3 == release(destructProxyShape(w1, current), current, SizeofProxyShape)
         IN  keepShapesLoop(w3, nextElement)

removeAllKeepsShapes(w, b) ==
    LET w1 == keepShapesLoop(w, w.head[b])
    IN  [Call(w1, "resetHead", NULL, "none") EXCEPT !.head[b] = NULL]

\* Mutant of removeAllCollisionShapes: the walk starts after the head.
removeAllSkipsHead(w, b) ==
    LET first == IF w.head[b] = NULL THEN NULL ELSE w.next[w.head[b]]
        w1 == removeAllLoop(w, first)
    IN  [Call(w1, "resetHead", NULL, "none") EXCEPT !.head[b] = NULL]

\* CollisionBody::removeAllCollisionShapes.
removeAllCollisionShapes(w, b) ==
    LET w1 == removeAllLoop(w, w.head[b])
    IN  [Call(w1, "resetHead", NULL, "none") EXCEPT !.head[b] = NULL]

\* Mutant of Destructor: the assertion is gone.
DestructorWithoutAssert(w, b) ==
    [removeAllCollisionShapes(w, b) EXCEPT !.alive[b] = FALSE]

\* CollisionBody::~CollisionBody.
Destructor(w, b) ==
    IF w.cmHead[b] # NULL
    THEN Abort(w, "assert")
    ELSE [removeAllCollisionShapes(w, b) EXCEPT !.alive[b] = FALSE]

\* The while loop of resetContactManifoldsList.
RECURSIVE resetLoop(_, _)
resetLoop(w, currentElement) ==
    IF currentElement = NULL
    THEN w
    ELSE LET nextElement == w.cmNext[currentElement]
             w1 == [Call(Visit(w, currentElement), "destructCM", currentElement,
                         "none") EXCEPT
                       !.cmNext[currentElement] = NULL]
             w2 == [Call(w1, "releaseCM", currentElement,
                         SizeofContactManifoldListElement) EXCEPT
                       !.cmAlloc = @ \ {currentElement},
                       !.misuse = IF currentElement \notin w1.cmAlloc
                                  THEN @ \cup {"releaseCM"} ELSE @]
         IN  resetLoop(w2, nextElement)

\* Mutant of resetContactManifoldsList: only the first element is deleted.
resetDeletesOnlyHead(w, b) ==
    LET currentElement == w.cmHead[b]
    IN  IF currentElement = NULL
        THEN w
        ELSE LET w1 == [Call(Visit(w, currentElement), "destructCM", currentElement,
                             "none") EXCEPT !.cmNext[currentElement] = NULL]
             IN  [Call(w1, "releaseCM", currentElement,
                       SizeofContactManifoldListElement) EXCEPT
                     !.cmAlloc = @ \ {currentElement}, !.cmHead[b] = NULL]

\* CollisionBody::resetContactManifoldsList.
resetContactManifoldsList(w, b) ==
    [resetLoop(w, w.cmHead[b]) EXCEPT !.cmHead[b] = NULL]

\* The for loop of updateBroadPhaseState.
RECURSIVE updateLoop(_, _)
updateLoop(w, shape) ==
    IF shape = NULL
    THEN w
    ELSE updateLoop(updateProxyCollisionShape(computeAABB(Visit(w, shape), shape),
                                              shape),
                    w.next[shape])

\* Mutant of updateBroadPhaseState: each proxy is taken out of the broad-phase
\* and put in again with its new AABB.
RECURSIVE reinsertLoop(_, _)
reinsertLoop(w, shape) ==
    IF shape = NULL
    THEN w
    ELSE reinsertLoop(
             addProxyCollisionShape(
                 removeProxyCollisionShape(computeAABB(Visit(w, shape), shape), shape),
                 shape),
             w.next[shape])

updateBroadPhaseStateReinserts(w, b) == reinsertLoop(w, w.head[b])

\* CollisionBody::updateBroadPhaseState.
updateBroadPhaseState(w, b) == updateLoop(w, w.head[b])

\* The for loop of askForBroadPhaseCollisionCheck.
RECURSIVE askLoop(_, _)
askLoop(w, shape) ==
    IF shape = NULL
    THEN w
    ELSE askLoop(bpAskForBroadPhaseCollisionCheck(Visit(w, shape), shape),
                 w.next[shape])

\* CollisionBody::askForBroadPhaseCollisionCheck.
askForBroadPhaseCollisionCheck(w, b) == askLoop(w, w.head[b])

\* The for loop of testPointInside; ret is 1 for true, 0 for false.
RECURSIVE testLoop(_, _, _)
testLoop(w, shape, worldPoint) ==
    IF shape = NULL
    THEN [w EXCEPT !.ret = 0]
    ELSE LET w1 == Call(Visit(w, shape), "testPointInside", shape, worldPoint)
         IN  IF ShapeContains(w.storeDef[w.shape[shape]], worldPoint)
             THEN [w1 EXCEPT !.ret = 1]
             ELSE testLoop(w1, w.next[shape], worldPoint)

\* Mutant of testPointInside: only the first proxy is asked.
testPointInsideAsksHead(w, b, worldPoint) ==
    LET shape == w.head[b]
    IN  IF shape = NULL
        THEN [w EXCEPT !.ret = 0]
        ELSE [Call(Visit(w, shape), "testPointInside", shape, worldPoint) EXCEPT
                 !.ret = IF ShapeContains(w.storeDef[w.shape[shape]], worldPoint)
                         THEN 1 ELSE 0]

\* CollisionBody::testPointInside.
testPointInside(w, b, worldPoint) == testLoop(w, w.head[b], worldPoint)

\* The world links a new contact manifold element in front of the body's list.
addContactManifold(w, b, block) ==
    [w EXCEPT !.cmAlloc = @ \cup {block}, !.cmNext[block] = w.cmHead[b],
              !.cmHead[b] = block]

\* ------------------------------------------------------------ the list, read
\* The nodes reachable from a head along next, head first (at most fuel nodes).
RECURSIVE Chain(_, _, _)
Chain(next, p, fuel) ==
    IF p = NULL \/ fuel = 0 THEN <<>> ELSE <<p>> \o Chain(next, next[p], fuel - 1)

Range(s) == {s[i] : i \in 1..Len(s)}

\* The proxy list of body b in the current state, and in a world record.
ProxyList(b) == Chain(mNext, mProxyCollisionShapes[b], MaxAddr + 1)
ProxyListOf(w, b) == Chain(w.next, w.head[b], MaxAddr + 1)
ManifoldList(b) == Chain(cmNext, mContactManifoldsList[b], MaxManifolds + 1)

\* ------------------------------------------------------------ actions
Init ==
    /\ bodyAlive = [b \in Bodies |-> TRUE]
    /\ mProxyCollisionShapes = [b \in Bodies |-> NULL]
    /\ mNbCollisionShapes = [b \in Bodies |-> 0]
    /\ mContactManifoldsList = [b \in Bodies |-> NULL]
    /\ mNext = [a \in Addr |-> NULL]
    /\ mCollisionShape = [a \in Addr |-> NULL]
    /\ mBody = [a \in Addr |-> "none"]
    /\ cmNext = [m \in MAddr |-> NULL]
    /\ allocated = {}
    /\ cmAllocated = {}
    /\ bpRegistered = [a \in Addr |-> 0]
    /\ storeDef = [h \in SAddr |-> "none"]
    /\ nbSimilarCreatedShapes = [h \in SAddr |-> 0]
    /\ misuse = {}
    /\ fault = "none"
    /\ lastOp = [op |-> "construct", body |-> "b1", ptr |-> NULL, name |-> "none",
                 ret |-> NULL]
    /\ calls = <<>>
    /\ visited = <<>>
    /\ streak = [b \in Bodies |-> 0]
    /\ attachOrder = [b \in Bodies |-> <<>>]

\* The state after a call that took the world to w.
Apply(op, b, ptr, name, w) ==
    /\ bodyAlive' = w.alive
    /\ mProxyCollisionShapes' = w.head
    /\ mNbCollisionShapes' = w.count
    /\ mContactManifoldsList' = w.cmHead
    /\ mNext' = w.next
    /\ mCollisionShape' = w.shape
    /\ mBody' = w.body
    /\ cmNext' = w.cmNext
    /\ allocated' = w.alloc
    /\ cmAllocated' = w.cmAlloc
    /\ bpRegistered' = w.bp
    /\ storeDef' = w.storeDef
    /\ nbSimilarCreatedShapes' = w.store
    /\ misuse' = w.misuse
    /\ fault' = w.fault
    /\ lastOp' = [op |-> op, body |-> b, ptr |-> ptr, name |-> name, ret |-> w.ret]
    /\ calls' = w.calls
    /\ visited' = w.visited
    /\ attachOrder' =
           IF w.fault # "none" THEN attachOrder
           ELSE [attachOrder EXCEPT ![b] =
                    IF op = "attach" THEN Append(@, w.ret)
                    ELSE IF op = "detach" THEN SelectSeq(@, LAMBDA x : x # ptr)
                    ELSE IF op \in {"detachAll", "destroy", "construct"} THEN <<>>
                    ELSE @]
    /\ streak' = IF w.fault # "none" THEN streak
                 ELSE [streak EXCEPT ![b] =
                          IF w.head[b] = NULL THEN 0
                          ELSE IF op = "attach" /\ streak[b] >= 0 THEN streak[b] + 1
                          ELSE -1]

Live(b) == fault = "none" /\ bodyAlive[b]

Construct(b) ==
    /\ fault = "none" /\ ~bodyAlive[b]
    /\ Apply("construct", b, NULL, "none", Constructor(World, b))

Attach(b, s, slot, block) ==
    /\ Live(b)
    /\ block \notin allocated
    /\ storeDef[slot] = IF \E h \in SAddr : storeDef[h] = s THEN s ELSE "none"
    /\ mNbCollisionShapes[b] < MaxCount
    /\ Apply("attach", b, block, s, addCollisionShape(World, b, s, slot, block))

Detach(b, proxyShape) ==
    /\ Live(b)
    /\ Apply("detach", b, proxyShape, "none", removeCollisionShape(World, b, proxyShape))

DetachAll(b) ==
    /\ Live(b)
    /\ Apply("detachAll", b, NULL, "none", removeAllCollisionShapes(World, b))

Destroy(b) ==
    /\ Live(b)
    /\ Apply("destroy", b, NULL, "none", Destructor(World, b))

ResetContactManifolds(b) ==
    /\ Live(b)
    /\ Apply("resetContactManifolds", b, NULL, "none",
             resetContactManifoldsList(World, b))

Refresh(b) ==
    /\ Live(b)
    /\ Apply("refresh", b, NULL, "none", updateBroadPhaseState(World, b))

Recheck(b) ==
    /\ Live(b)
    /\ Apply("recheck", b, NULL, "none", askForBroadPhaseCollisionCheck(World, b))

ContainsPoint(b, worldPoint) ==
    /\ Live(b)
    /\ Apply("containsPoint", b, NULL, worldPoint, testPointInside(World, b, worldPoint))

AddContactManifold(b, block) ==
    /\ Live(b)
    /\ block \notin cmAllocated
    /\ Apply("addContactManifold", b, block, "none", addContactManifold(World, b, block))

Next ==
    \/ \E b \in Bodies : Construct(b)
    \/ \E b \in Bodies, s \in ShapeDefs, slot \in SAddr, block \in Addr :
          Attach(b, s, slot, block)
    \/ \E b \in Bodies, proxyShape \in Addr \cup {NULL} : Detach(b, proxyShape)
    \/ \E b \in Bodies : DetachAll(b)
    \/ \E b \in Bodies : Destroy(b)
    \/ \E b \in Bodies : ResetContactManifolds(b)
    \/ \E b \in Bodies : Refresh(b)
    \/ \E b \in Bodies : Recheck(b)
    \/ \E b \in Bodies, worldPoint \in Points : ContainsPoint(b, worldPoint)
    \/ \E b \in Bodies, block \in MAddr : AddContactManifold(b, block)

Spec == Init /\ [][Next]_vars

\* ------------------------------------------------------------ properties
\* How often the call e occurs in the call sequence s.
Occurrences(s, e) == Cardinality({i \in 1..Len(s) : s[i] = e})

\* The calls of s made to a collaborator (not the body's writes to its own fields).
OwnWrites == {"link", "unlink", "count", "resetHead"}
CollaboratorCalls(s) == SelectSeq(s, LAMBDA e : e[1] \notin OwnWrites)

\* The sequence s without its element x.
Without(s, x) == SelectSeq(s, LAMBDA y : y # x)

\* The last step was a call of op on lastOp'.body.
Did(op) == lastOp'.op = op

\* The proxies registered in the broad-phase that belong to body b.
RegisteredOf(b) == {a \in Addr : bpRegistered[a] > 0 /\ mBody[a] = b}

BroadPhaseCalls == {"addProxy", "removeProxy", "updateProxy", "requestRecheck"}

\* C1: in every reachable state the shape counter of a live body equals the
\* number of nodes reachable from the head of its proxy list.
C1_CountEqualsListLength ==
    \A b \in Bodies : bodyAlive[b] => mNbCollisionShapes[b] = Len(ProxyList(b))

\* C2: after removeAllCollisionShapes the body has shape count 0 and an empty
\* proxy list.
C2_DetachAllEmptiesBody ==
    lastOp.op = "detachAll" =>
        /\ mProxyCollisionShapes[lastOp.body] = NULL
        /\ mNbCollisionShapes[lastOp.body] = 0

\* C3: removeCollisionShape with a handle that is not in the body's list, the
\* empty list included, raises no fault and changes neither the list, the
\* counter, the broad-phase registrations, the store nor the pool.
C3_DetachForeignIsNoOp ==
    [][(Did("detach") /\ lastOp'.ptr \notin Range(ProxyList(lastOp'.body)))
          => (fault' = "none" /\ UNCHANGED <<bodyVars, proxyVars, worldVars>>)]_vars

\* C4: between operations the proxies registered in the broad-phase for a body
\* are exactly the proxies of its list, each registered once, and no broad-phase
\* call was ever made with a proxy that was not attached at the time (addProxy:
\* that was already registered).
C4_BroadPhaseMatchesList ==
    /\ \A b \in Bodies : RegisteredOf(b) = Range(ProxyList(b))
    /\ \A a \in Addr : bpRegistered[a] <= 1
    /\ \A a \in Addr : bpRegistered[a] > 0 => a \in allocated
    /\ misuse \cap BroadPhaseCalls = {}

\* C4 witness: a proxy was detached from a list that keeps another proxy; the
\* detached one is no longer registered, the kept one is.
C4_Witness ==
    /\ lastOp.op = "detach" /\ calls # <<>>
    /\ bpRegistered[lastOp.ptr] = 0
    /\ Len(ProxyList(lastOp.body)) >= 1

\* C5: removeAllCollisionShapes, and the destructor of a body without contact
\* manifolds, call removeProxy exactly once for each proxy of the list and for
\* no other, and leave none of them registered.
C5_TeardownDeregistersEachOnce ==
    [][(Did("detachAll") \/ (Did("destroy") /\ mContactManifoldsList[lastOp'.body] = NULL))
          => /\ \A a \in Addr :
                   Occurrences(calls', <<"removeProxy", a, "none">>)
                       = IF a \in Range(ProxyList(lastOp'.body)) THEN 1 ELSE 0
             /\ \A a \in Range(ProxyList(lastOp'.body)) : bpRegistered'[a] = 0
             /\ "removeProxy" \notin misuse'
             /\ fault' = "none"]_vars

\* C5 witness: a body with two or more proxies, one of them attached after a
\* detach, was destroyed.
C5_Witness ==
    /\ lastOp.op = "destroy" /\ fault = "none"
    /\ Cardinality({i \in 1..Len(calls) : calls[i][1] = "removeProxy"}) >= 2

\* C6: after N attaches in a row on a body whose list was empty (fresh, or
\* emptied by a detach or by removeAllCollisionShapes) the shape count is N and
\* the list has N distinct nodes.  streak[b] is that N, or -1 outside such a run.
C6_AttachRunCounts ==
    \A b \in Bodies :
        (bodyAlive[b] /\ streak[b] >= 0) =>
            /\ mNbCollisionShapes[b] = streak[b]
            /\ Len(ProxyList(b)) = streak[b]
            /\ Cardinality(Range(ProxyList(b))) = streak[b]

\* C7: removeCollisionShape of a proxy of the list, wherever it stands, removes
\* that node alone and keeps the order of the others, lowers the count by one,
\* and makes the same collaborator calls: removeProxy, the store's
\* removeCollisionShape, the destructor and the pool's release, once each.
C7_DetachRemovesExactlyThatNode ==
    [][\A b \in Bodies, p \in Addr :
          (Did("detach") /\ lastOp'.body = b /\ lastOp'.ptr = p
              /\ p \in Range(ProxyList(b)))
          => /\ fault' = "none"
             /\ Chain(mNext', mProxyCollisionShapes'[b], MaxAddr + 1)
                    = Without(ProxyList(b), p)
             /\ mNbCollisionShapes'[b] = mNbCollisionShapes[b] - 1
             /\ CollaboratorCalls(calls')
                    = << <<"removeProxy", p, "none">>,
                         <<"removeCollisionShape", mCollisionShape[p], "none">>,
                         <<"destruct", p, "none">>,
                         <<"release", p, "sizeof(ProxyShape)">> >>
             /\ bpRegistered' = [bpRegistered EXCEPT ![p] = 0]
             /\ allocated' = allocated \ {p}
             /\ misuse' = {}
             /\ (Len(ProxyList(b)) = 1 => mProxyCollisionShapes'[b] = NULL)]_vars

\* C7 witness: a node that was not the head was detached from a list of three.
C7_Witness ==
    /\ lastOp.op = "detach" /\ calls # <<>>
    /\ calls[1] = <<"unlink", lastOp.ptr, "mNext">>
    /\ Len(ProxyList(lastOp.body)) = 2

\* The proxies of body b's list that refer to the store entry h.
UsersOf(b, h) == {a \in Range(ProxyList(b)) : mCollisionShape[a] = h}

\* C8: attaching a definition the body already has attached makes a new proxy
\* that refers to the same store entry as the old one, the store keeps one
\* entry for the definition, and a detach frees the entry exactly when the
\* detached proxy was the last one of the list that referred to it.
C8_SharedShapeTwoProxies ==
    [][\A b \in Bodies, p \in Addr :
          /\ (Did("attach") /\ lastOp'.body = b /\ lastOp'.ret = p) =>
                \A old \in Range(ProxyList(b)) :
                    storeDef[mCollisionShape[old]] = lastOp'.name =>
                        /\ p # old
                        /\ {p, old} \subseteq
                               Range(Chain(mNext', mProxyCollisionShapes'[b], MaxAddr + 1))
                        /\ mCollisionShape'[p] = mCollisionShape'[old]
                        /\ Cardinality({h \in SAddr : storeDef'[h] = lastOp'.name}) = 1
          /\ (Did("detach") /\ lastOp'.body = b /\ lastOp'.ptr = p
                 /\ p \in Range(ProxyList(b))) =>
                LET h == mCollisionShape[p]
                IN  IF UsersOf(b, h) # {p}
                    THEN storeDef'[h] = storeDef[h] /\ nbSimilarCreatedShapes'[h] > 0
                    ELSE storeDef'[h] = "none" /\ nbSimilarCreatedShapes'[h] = 0]_vars

\* C8 witness: one of two proxies that share a store entry was detached and the
\* entry is still there for the other.
C8_Witness ==
    /\ lastOp.op = "detach" /\ calls # <<>>
    /\ \E a \in Range(ProxyList(lastOp.body)) :
          /\ <<"removeCollisionShape", mCollisionShape[a], "none">>
                 \in Range(calls)
          /\ nbSimilarCreatedShapes[mCollisionShape[a]] = 1

\* C9: the destructor of a body with contact manifolds fails its assertion
\* before it detaches anything and does not complete; the destructor of a body
\* without contact manifolds completes and detaches every proxy.
C9_DestructorAssertsNoManifolds ==
    [][\A b \in Bodies :
          (Did("destroy") /\ lastOp'.body = b) =>
              IF mContactManifoldsList[b] # NULL
              THEN /\ fault' = "assert" /\ calls' = <<>>
                   /\ UNCHANGED <<bodyVars, proxyVars, worldVars>>
              ELSE /\ fault' = "none" /\ ~bodyAlive'[b]
                   /\ mProxyCollisionShapes'[b] = NULL
                   /\ \A a \in Range(ProxyList(b)) :
                         a \notin allocated' /\ bpRegistered'[a] = 0]_vars

\* C9 witness: a body with a proxy and a contact manifold was destroyed and the
\* assertion failed.
C9_Witness ==
    /\ lastOp.op = "destroy" /\ fault = "assert"
    /\ Len(ProxyList(lastOp.body)) >= 1
    /\ mContactManifoldsList[lastOp.body] # NULL

\* C10: the shape count is never negative, and the assertion that ends
\* removeCollisionShape never fails.
C10_CountNeverNegative ==
    /\ \A b \in Bodies : mNbCollisionShapes[b] >= 0
    /\ lastOp.op = "detach" => fault # "assert"

\* C10 witness: after a removeAllCollisionShapes earlier on (the count exceeds
\* the list's length) a detach of a handle that is not in the list ran to the
\* assertion and passed it.
C10_Witness ==
    /\ lastOp.op = "detach" /\ calls = <<>> /\ fault = "none"
    /\ mNbCollisionShapes[lastOp.body] > Len(ProxyList(lastOp.body))

\* C11: resetContactManifoldsList destructs and releases every element of the
\* contact-manifold list exactly once (and no other block), leaves that list
\* empty, and changes neither the proxy list, the shape count, the broad-phase
\* registrations, the store nor the proxies' blocks.
C11_ResetManifoldsReleasesEachOnce ==
    [][\A b \in Bodies :
          (Did("resetContactManifolds") /\ lastOp'.body = b) =>
             /\ \A m \in MAddr :
                   LET n == IF m \in Range(ManifoldList(b)) THEN 1 ELSE 0
                   IN  /\ Occurrences(calls', <<"destructCM", m, "none">>) = n
                       /\ Occurrences(calls', <<"releaseCM", m,
                                               SizeofContactManifoldListElement>>) = n
             /\ Len(calls') = 2 * Len(ManifoldList(b))
             /\ mContactManifoldsList'[b] = NULL
             /\ cmAllocated' = cmAllocated \ Range(ManifoldList(b))
             /\ fault' = "none" /\ misuse' = misuse
             /\ UNCHANGED <<mProxyCollisionShapes, mNbCollisionShapes, proxyVars,
                            bpRegistered, storeDef, nbSimilarCreatedShapes,
                            allocated, bodyAlive>>]_vars

\* C11 witness: a list of two contact manifolds was reset on a body that has
\* a proxy attached.
C11_Witness ==
    /\ lastOp.op = "resetContactManifolds"
    /\ Len(calls) = 4
    /\ mProxyCollisionShapes[lastOp.body] # NULL

\* The names of the calls in a call sequence.
CallNames(s) == {s[i][1] : i \in 1..Len(s)}

\* C12: updateBroadPhaseState and askForBroadPhaseCollisionCheck change neither
\* the proxy list, the shape count, the contact-manifold list, the store nor
\* the pool, call updateProxy (respectively requestRecheck) exactly once for
\* each proxy of the list and for no other, and never addProxy or removeProxy;
\* the registered proxies are the same before and after.
C12_RefreshAndRecheckReadOnly ==
    [][\A b \in Bodies :
          /\ (Did("refresh") /\ lastOp'.body = b) =>
                /\ \A a \in Addr :
                      Occurrences(calls', <<"updateProxy", a, "none">>)
                          = IF a \in Range(ProxyList(b)) THEN 1 ELSE 0
                /\ CallNames(calls') \cap {"addProxy", "removeProxy"} = {}
                /\ fault' = "none"
                /\ UNCHANGED <<bodyVars, proxyVars, worldVars>>
          /\ (Did("recheck") /\ lastOp'.body = b) =>
                /\ \A a \in Addr :
                      Occurrences(calls', <<"requestRecheck", a, "none">>)
                          = IF a \in Range(ProxyList(b)) THEN 1 ELSE 0
                /\ CallNames(calls') \cap {"addProxy", "removeProxy"} = {}
                /\ fault' = "none"
                /\ UNCHANGED <<bodyVars, proxyVars, worldVars>>]_vars

\* C12 witness: the broad-phase state of a body with two or more proxies was
\* refreshed.
C12_Witness ==
    /\ lastOp.op = "refresh"
    /\ Cardinality({i \in 1..Len(calls) : calls[i][1] = "updateProxy"}) >= 2
    /\ Len(ProxyList(lastOp.body)) >= 2

\* Proxy a, attached to some body, contains the point p.
ProxyContains(a, p) == ShapeContains(storeDef[mCollisionShape[a]], p)

\* C13: testPointInside returns true exactly when some proxy of the body's list
\* contains the point: false on an empty list, and never true when only blocks
\* outside the list (detached proxies) could account for it.  It writes nothing.
C13_ContainsPointIffSomeProxy ==
    [][\A b \in Bodies :
          (Did("containsPoint") /\ lastOp'.body = b) =>
             /\ lastOp'.ret \in {0, 1}
             /\ (lastOp'.ret = 1) <=>
                    (\E a \in Range(ProxyList(b)) : ProxyContains(a, lastOp'.name))
             /\ (mProxyCollisionShapes[b] = NULL => lastOp'.ret = 0)
             /\ fault' = "none"
             /\ UNCHANGED <<bodyVars, proxyVars, worldVars>>]_vars

\* C13 witness: the point is not in the first proxy of the list but in a later
\* one, and testPointInside returned true.
C13_Witness ==
    /\ lastOp.op = "containsPoint" /\ lastOp.ret = 1
    /\ mProxyCollisionShapes[lastOp.body] # NULL
    /\ ~ProxyContains(mProxyCollisionShapes[lastOp.body], lastOp.name)

\* The place of the first call named name in the call sequence s (0: none).
FirstCall(s, name) ==
    IF \E i \in 1..Len(s) : s[i][1] = name
    THEN CHOOSE i \in 1..Len(s) :
             s[i][1] = name /\ \A j \in 1..(i - 1) : s[j][1] # name
    ELSE 0

\* C14 as claimed: within one addCollisionShape the store creates the shape,
\* then the proxy is constructed, then the AABB is computed, then the
\* broad-phase registers the proxy, and only then is the proxy linked into the
\* body's list.
C14_AttachOrderAsClaimed ==
    lastOp.op = "attach" =>
        /\ 0 < FirstCall(calls, "createCollisionShape")
        /\ FirstCall(calls, "createCollisionShape") < FirstCall(calls, "construct")
        /\ FirstCall(calls, "construct") < FirstCall(calls, "computeAABB")
        /\ FirstCall(calls, "computeAABB") < FirstCall(calls, "addProxy")
        /\ FirstCall(calls, "addProxy") < FirstCall(calls, "link")

\* C14 as amended: within one addCollisionShape the store creates the shape,
\* the pool allocates, the proxy is constructed, the body links the proxy in
\* front of its list, the AABB is computed, the broad-phase registers the proxy
\* and the count is incremented, in this order and once each: the proxy is
\* reachable from the list head before it is registered.
C14_AttachOrder ==
    lastOp.op = "attach" =>
        LET p == lastOp.ret
        IN  calls = << <<"createCollisionShape", mCollisionShape[p], lastOp.name>>,
                       <<"allocate", p, SizeofProxyShape>>,
                       <<"construct", p, "none">>,
                       <<"link", p, "none">>,
                       <<"computeAABB", p, "none">>,
                       <<"addProxy", p, "none">>,
                       <<"count", p, "++">> >>

\* C14 witness: a proxy was attached in front of another one.
C14_Witness ==
    /\ lastOp.op = "attach"
    /\ mProxyCollisionShapes[lastOp.body] = lastOp.ret
    /\ mNext[lastOp.ret] # NULL

\* C15 as claimed: within one removeCollisionShape of an owned handle the
\* broad-phase deregisters the proxy, then the store releases the shape, then
\* the proxy is destructed and freed, and only then is the node unlinked.
C15_DetachOrderAsClaimed ==
    (lastOp.op = "detach" /\ calls # <<>>) =>
        /\ 0 < FirstCall(calls, "removeProxy")
        /\ FirstCall(calls, "removeProxy") < FirstCall(calls, "removeCollisionShape")
        /\ FirstCall(calls, "removeCollisionShape") < FirstCall(calls, "destruct")
        /\ FirstCall(calls, "destruct") < FirstCall(calls, "release")
        /\ FirstCall(calls, "release") < FirstCall(calls, "unlink")

\* C15 as amended: within one removeCollisionShape of an owned handle, for a
\* head node and for a non-head node alike, the node is unlinked first (from
\* the head pointer or from its predecessor's mNext), then the broad-phase
\* deregisters the proxy, the store releases the proxy's shape, the proxy is
\* destructed, its storage is released and the count is decremented, in this
\* order and once each.
C15_DetachOrder ==
    [][\A b \in Bodies, p \in Addr :
          (Did("detach") /\ lastOp'.body = b /\ lastOp'.ptr = p
             /\ p \in Range(ProxyList(b)))
          => /\ fault' = "none"
             /\ calls' = << <<"unlink", p,
                              IF mProxyCollisionShapes[b] = p
                              THEN "mProxyCollisionShapes" ELSE "mNext">>,
                            <<"removeProxy", p, "none">>,
                            <<"removeCollisionShape", mCollisionShape[p], "none">>,
                            <<"destruct", p, "none">>,
                            <<"release", p, SizeofProxyShape>>,
                            <<"count", p, "--">> >>]_vars

\* C15 witness: a node that was not the head was detached.
C15_Witness ==
    /\ lastOp.op = "detach"
    /\ calls # <<>>
    /\ calls[1] = <<"unlink", lastOp.ptr, "mNext">>

\* C15, the head case happens as well: the head was detached.
C15_HeadDetached ==
    /\ lastOp.op = "detach"
    /\ calls # <<>>
    /\ calls[1] = <<"unlink", lastOp.ptr, "mProxyCollisionShapes">>

\* The sequence s back to front.
Reverse(s) == [i \in 1..Len(s) |-> s[Len(s) + 1 - i]]

\* C16: after every operation the proxy list, walked from its head, holds the
\* proxies attached and not detached since, the most recently attached first;
\* an attach makes the new proxy the head with the previous list behind it, and
\* a detach takes its node out and leaves the order of the others.
C16_ListIsReverseOfAttachment ==
    [][\A b \in Bodies :
          /\ Chain(mNext', mProxyCollisionShapes'[b], MaxAddr + 1)
                 = Reverse(attachOrder'[b])
          /\ (Did("attach") /\ lastOp'.body = b)
                 => Chain(mNext', mProxyCollisionShapes'[b], MaxAddr + 1)
                        = <<lastOp'.ret>> \o ProxyList(b)
          /\ (Did("detach") /\ lastOp'.body = b)
                 => Chain(mNext', mProxyCollisionShapes'[b], MaxAddr + 1)
                        = SelectSeq(ProxyList(b), LAMBDA x : x # lastOp'.ptr)]_vars

\* C16 witness: of three attached proxies one behind the head was detached, and
\* the two others are left, the later attached first.
C16_Witness ==
    /\ lastOp.op = "detach"
    /\ calls # <<>>
    /\ calls[1][3] = "mNext"
    /\ Len(ProxyList(lastOp.body)) = 2
    /\ Len(attachOrder[lastOp.body]) = 2

\* C17: between operations the proxy blocks allocated and not released are
\* the nodes of the body's proxy list; within an operation every block is
\* released at most once, after its proxy was destructed and with the size
\* proxies are allocated with, no block is allocated twice or released when
\* not allocated; after removeAllCollisionShapes and after the destructor no
\* proxy block is allocated.
C17_PoolBalanced ==
    /\ \A b \in Bodies : allocated = Range(ProxyList(b))
    /\ misuse \cap {"allocate", "release", "releaseSize"} = {}
    /\ \A i \in 1..Len(calls) :
          /\ calls[i][1] = "allocate" => calls[i][3] = SizeofProxyShape
          /\ calls[i][1] = "release" =>
                /\ calls[i][3] = SizeofProxyShape
                /\ \E j \in 1..(i - 1) : calls[j] = <<"destruct", calls[i][2], "none">>
                /\ \A j \in 1..Len(calls) :
                      (calls[j][1] = "release" /\ calls[j][2] = calls[i][2]) => j = i
    /\ (lastOp.op \in {"detachAll", "destroy"} /\ fault = "none") => allocated = {}

\* C17 witness: removeAllCollisionShapes released the blocks of two proxies.
C17_Witness ==
    /\ lastOp.op = "detachAll"
    /\ Len(SelectSeq(calls, LAMBDA e : e[1] = "release")) = 2
    /\ allocated = {}

\* The number of calls named name with argument h in the call sequence s.
CallsOn(s, name, h) ==
    Cardinality({i \in 1..Len(s) : s[i][1] = name /\ s[i][2] = h})

\* C18: over every operation and for every store handle h, the body's
\* createCollisionShape calls that returned h minus its removeCollisionShape
\* calls on h equal the change in the number of listed proxies that refer to h;
\* after every operation the store's counter of h is that number of proxies,
\* so the entry of a shape a listed proxy refers to is not freed, the store is
\* never asked to release an entry it does not hold, and after
\* removeAllCollisionShapes and after the destructor every counter is zero.
C18_StoreReferencesBalanced ==
    [][\A b \in Bodies, h \in SAddr :
          LET users == {a \in Range(Chain(mNext', mProxyCollisionShapes'[b],
                                          MaxAddr + 1)) : mCollisionShape'[a] = h}
          IN  /\ CallsOn(calls', "createCollisionShape", h)
                    - CallsOn(calls', "removeCollisionShape", h)
                 = Cardinality(users) - Cardinality(UsersOf(b, h))
              /\ nbSimilarCreatedShapes'[h] = Cardinality(users)
              /\ users # {} => storeDef'[h] # "none"
              /\ "removeCollisionShape" \notin misuse'
              /\ (lastOp'.op \in {"detachAll", "destroy"} /\ fault' = "none")
                    => nbSimilarCreatedShapes'[h] = 0]_vars

\* C18 witness: removeAllCollisionShapes gave back two references to one store
\* entry and one to another.
C18_Witness ==
    /\ lastOp.op = "detachAll"
    /\ \E h, g \in SAddr :
          /\ h # g
          /\ CallsOn(calls, "removeCollisionShape", h) = 2
          /\ CallsOn(calls, "removeCollisionShape", g) = 1
    /\ \A h \in SAddr : nbSimilarCreatedShapes[h] = 0

\* The sequence s has no element twice.
NoDuplicates(s) == \A i, j \in 1..Len(s) : s[i] = s[j] => i = j

\* C19: after every operation the proxy list is acyclic (the walk from the head
\* reaches NULL without meeting a node twice), and the operation's loop looked
\* at no node twice and only at nodes of the list it walked: the proxy list as
\* it was before the operation (the contact-manifold list for
\* resetContactManifoldsList), none at all for addCollisionShape.  A
\* removeCollisionShape on an empty list ends at its first read, having looked
\* at no node.
C19_AcyclicAndBoundedTraversal ==
    [][\A b \in Bodies :
          /\ NoDuplicates(Chain(mNext', mProxyCollisionShapes'[b], MaxAddr + 1))
          /\ lastOp'.body = b =>
                /\ NoDuplicates(visited')
                /\ Len(visited') <= IF Did("resetContactManifolds")
                                    THEN Len(ManifoldList(b))
                                    ELSE Len(ProxyList(b))
                /\ Range(visited') \subseteq IF Did("resetContactManifolds")
                                             THEN Range(ManifoldList(b))
                                             ELSE Range(ProxyList(b))
                /\ Did("attach") => visited' = <<>>
                /\ (Did("detach") /\ lastOp'.ptr \notin Range(ProxyList(b)))
                      => visited' = ProxyList(b)]_vars

\* C19 witness: a removeCollisionShape of a handle the body does not own walked
\* a list of three nodes to its end.
C19_Witness ==
    /\ lastOp.op = "detach"
    /\ Len(visited) = 3
    /\ lastOp.ptr \notin Range(visited)
    /\ visited = ProxyList(lastOp.body)

\* C20: in removeCollisionShape, removeAllCollisionShapes and the destructor,
\* the destruction of a proxy and the release of its storage come after the
\* removeProxy call for that proxy, and the release of its shape reference
\* comes right after that removeProxy call and before the destruction; the
\* broad-phase is never told to remove a proxy that is not allocated or not
\* registered, and after the operation every registered proxy is constructed
\* and its block allocated.
C20_DeregisteredBeforeFreed ==
    /\ \A a \in Addr :
          bpRegistered[a] > 0 => (a \in allocated /\ mBody[a] # "none")
    /\ "removeProxy" \notin misuse
    /\ lastOp.op \in {"detach", "detachAll", "destroy"} =>
          \A i \in 1..Len(calls) :
             /\ calls[i][1] \in {"destruct", "release"} =>
                   \E j \in 1..(i - 1) : calls[j] = <<"removeProxy", calls[i][2], "none">>
             /\ calls[i][1] = "removeCollisionShape" =>
                   /\ i > 1
                   /\ calls[i - 1][1] = "removeProxy"
                   /\ i < Len(calls)
                   /\ calls[i + 1] = <<"destruct", calls[i - 1][2], "none">>

\* C20 witness: the destructor deregistered and freed two proxies.
C20_Witness ==
    /\ lastOp.op = "destroy"
    /\ fault = "none"
    /\ Len(SelectSeq(calls, LAMBDA e : e[1] = "removeProxy")) = 2
    /\ Len(SelectSeq(calls, LAMBDA e : e[1] = "release")) = 2

====
